---- MODULE Spec2Model ----
(***************************************************************************)
(* A model of nr-maser-mon: the two relay workers of nr-maser-mon.py       *)
(* (relay_nrcan_to_maser, relay_maser_to_nrcan), the main control flow,    *)
(* the frame classifier and fixed-column decoder, the metric publisher,    *)
(* and the stand-alone relay of serial-relay-nrcan-to-maser.py.            *)
(*                                                                         *)
(* Text is a sequence of one-character strings.  A byte of a serial link   *)
(* is written as the character it encodes; a byte with the high bit set is *)
(* the token "\\xff".                                                      *)
(***************************************************************************)
EXTENDS Integers, Sequences, FiniteSets, TLC

(***************************************************************************)
(* Bounds of the model.                                                    *)
(***************************************************************************)
\* longest of the byte sequences, over a small alphabet, fed to one relay
\* loop under SpecLoop
MaxBytes == 4
\* number of fillings of the columns of each status and analog line fed to
\* the maser loop under SpecLoop
MaxVariants == 3
\* most pieces (SYN, DGSW, set keys, parts of them) a frame fed to the
\* classifier under SpecLoop is made of
MaxPieces == 3
\* most frames that arrive, over both links, under Spec and FairSpec
MaxFrames == 2
\* most frames the maser sends under SpecPublish
MaxPublishes == 2
\* most bytes that arrive on each link under SpecPair and FairPair
MaxPairBytes == 2

(***************************************************************************)
(* Characters and text                                                     *)
(***************************************************************************)
Digits == {"0", "1", "2", "3", "4", "5", "6", "7", "8", "9"}

\* the ASCII characters str.strip(), int() and float() treat as white space
Whitespace == {" ", "\t", "\n", "\r", "\f"}

DigitVal(c) ==
    CASE c = "0" -> 0 [] c = "1" -> 1 [] c = "2" -> 2 [] c = "3" -> 3
      [] c = "4" -> 4 [] c = "5" -> 5 [] c = "6" -> 6 [] c = "7" -> 7
      [] c = "8" -> 8 [] c = "9" -> 9

\* str.lower() on one character (the letters the catalog and the frames use)
LowerChar(c) ==
    CASE c = "A" -> "a" [] c = "B" -> "b" [] c = "C" -> "c" [] c = "D" -> "d"
      [] c = "E" -> "e" [] c = "F" -> "f" [] c = "G" -> "g" [] c = "H" -> "h"
      [] c = "I" -> "i" [] c = "J" -> "j" [] c = "K" -> "k" [] c = "L" -> "l"
      [] c = "M" -> "m" [] c = "N" -> "n" [] c = "O" -> "o" [] c = "P" -> "p"
      [] c = "Q" -> "q" [] c = "R" -> "r" [] c = "S" -> "s" [] c = "T" -> "t"
      [] c = "U" -> "u" [] c = "V" -> "v" [] c = "W" -> "w" [] c = "X" -> "x"
      [] c = "Y" -> "y" [] c = "Z" -> "z" [] OTHER -> c

Min(a, b) == IF a < b THEN a ELSE b
Max(a, b) == IF a > b THEN a ELSE b

\* Python's s[lo:hi] for 0 <= lo <= hi: the slice is clipped to the string
Slice(s, lo, hi) == SubSeq(s, Min(lo, Len(s)) + 1, Min(hi, Len(s)))

\* Python's `sub in s`
Contains(s, sub) ==
    \E i \in 0..(Len(s) - Len(sub)) : SubSeq(s, i + 1, i + Len(sub)) = sub

RECURSIVE LStrip(_, _)
LStrip(s, chars) ==
    IF s # <<>> /\ Head(s) \in chars THEN LStrip(Tail(s), chars) ELSE s

RECURSIVE RStrip(_, _)
RStrip(s, chars) ==
    IF s # <<>> /\ s[Len(s)] \in chars
    THEN RStrip(SubSeq(s, 1, Len(s) - 1), chars) ELSE s

\* Python's s.strip(chars): both ends
Strip(s, chars) == RStrip(LStrip(s, chars), chars)

\* Python's s.replace(" ", "_")
ReplaceSpace(s) == [i \in 1..Len(s) |-> IF s[i] = " " THEN "_" ELSE s[i]]

Lower(s) == [i \in 1..Len(s) |-> LowerChar(s[i])]

\* the label of a catalog identifier: id.strip().replace(" ", "_").lower()
Normalize(id) == Lower(ReplaceSpace(Strip(id, Whitespace)))

(***************************************************************************)
(* Metric values.  A value is a record [kind, neg, m, e]: an integer       *)
(* (kind "int", the number m, negated when neg), a float given by its      *)
(* decimal digits (kind "float": m * 10^e with m not a multiple of 10),    *)
(* one of float's special values (kind "inf", "nan"), or a POSIX time      *)
(* (kind "epoch": m days and e seconds since 1970-01-01T00:00:00Z).        *)
(***************************************************************************)
IntVal(n) == [kind |-> "int", neg |-> n < 0, m |-> IF n < 0 THEN -n ELSE n, e |-> 0]

\* the value the parsers substitute for a field that does not parse
Sentinel == IntVal(-1)

\* the marker of a failed sub-parse (magnitudes are never negative)
NoParse == -1

\* A run of digits of `base` with single underscores between digits, as
\* int() and float() accept it; NoParse when it is not one.  `sep` tells
\* whether the previous character forbids an underscore here.
RECURSIVE DigitRun(_, _, _, _)
DigitRun(s, base, acc, sep) ==
    IF s = <<>> THEN (IF sep THEN NoParse ELSE acc)
    ELSE IF Head(s) = "_"
         THEN (IF sep THEN NoParse ELSE DigitRun(Tail(s), base, acc, TRUE))
    ELSE IF Head(s) \in Digits /\ DigitVal(Head(s)) < base
         THEN DigitRun(Tail(s), base, acc * base + DigitVal(Head(s)), FALSE)
    ELSE NoParse

\* number of digit characters of a valid digit run
DigitCount(s) == Cardinality({i \in 1..Len(s) : s[i] \in Digits})

HasSign(s) == s # <<>> /\ Head(s) \in {"+", "-"}
Unsigned(s) == IF HasSign(s) THEN Tail(s) ELSE s
IsNeg(s) == s # <<>> /\ Head(s) = "-"

\* the literal prefix int(s, 2) accepts after the sign
HasBinPrefix(s) == Len(s) >= 2 /\ s[1] = "0" /\ s[2] \in {"b", "B"}

\* the digits of an int literal, its sign and white space taken off
BodyMagnitude(body, base) ==
    IF base = 2 /\ HasBinPrefix(body)
    THEN (IF Len(body) = 2 THEN NoParse
          ELSE DigitRun(SubSeq(body, 3, Len(body)), base, 0, FALSE))
    ELSE DigitRun(body, base, 0, TRUE)

\* int(s, base) for base 2 or 10, as magnitude and sign: NoParse stands for
\* ValueError
IntMagnitude(s, base) == BodyMagnitude(Unsigned(Strip(s, Whitespace)), base)

\* try: i = int(s, base) / except ValueError: i = -1
IntOrSentinel(mag, neg) ==
    IF mag = NoParse THEN Sentinel ELSE IntVal(IF neg THEN -mag ELSE mag)

str2int(s, base) == IntOrSentinel(IntMagnitude(s, base), IsNeg(Strip(s, Whitespace)))

RECURSIVE TrimZeros(_, _)
\* m * 10^e with the trailing zeros of m moved into e
TrimZeros(m, e) ==
    IF m = 0 THEN <<0, 0>>
    ELSE IF m % 10 = 0 THEN TrimZeros(m \div 10, e + 1)
    ELSE <<m, e>>

RECURSIVE NumDigits(_)
NumDigits(n) == IF n < 10 THEN 1 ELSE 1 + NumDigits(n \div 10)

\* position of the first character of s in set cs, 0 when there is none
FirstIn(s, cs) ==
    IF \E i \in 1..Len(s) : s[i] \in cs
    THEN CHOOSE i \in 1..Len(s) : s[i] \in cs /\ \A j \in 1..(i - 1) : s[j] \notin cs
    ELSE 0

RECURSIVE Pow10(_)
Pow10(k) == IF k = 0 THEN 1 ELSE 10 * Pow10(k - 1)

\* the first nine significant digits of m (m has at most nine)
Lead9(m) == m * Pow10(9 - NumDigits(m))

\* m * 10^e rounds to infinity: it is above the largest double, 1.797693134862315e308
Overflows(m, e) ==
    LET top == NumDigits(m) + e
    IN  top > 309 \/ (top = 309 /\ Lead9(m) > 179769313)

\* m * 10^e rounds to zero: it is at most half the least double, 2.470328229e-324
Underflows(m, e) ==
    LET top == NumDigits(m) + e
    IN  top < -323 \/ (top = -323 /\ Lead9(m) <= 247032822)

\* what float(s) raises for text that is no number
FloatError == [kind |-> "ValueError", neg |-> FALSE, m |-> 0, e |-> 0]

FloatInf(neg) == [kind |-> "inf", neg |-> neg, m |-> 0, e |-> 0]
FloatNan == [kind |-> "nan", neg |-> FALSE, m |-> 0, e |-> 0]
FloatZero(neg) == [kind |-> "float", neg |-> neg, m |-> 0, e |-> 0]

\* the double nearest to m * 10^e, for <<m, e>> with no trailing zero in m.
\* Magnitudes beyond the range of a double become inf or zero as the
\* conversion rounds them; otherwise the decimal digits stand for the double.
FloatRound(neg, norm) ==
    IF norm[1] = 0 \/ Underflows(norm[1], norm[2]) THEN FloatZero(neg)
    ELSE IF Overflows(norm[1], norm[2]) THEN FloatInf(neg)
    ELSE [kind |-> "float", neg |-> neg, m |-> norm[1], e |-> norm[2]]

\* the value of a decimal literal from the numbers of its integer digits
\* iv, fraction digits fv (fd of them) and exponent digits ev (negated when
\* eneg)
FloatValue(neg, iv, fv, fd, ev, eneg) ==
    IF iv = NoParse \/ fv = NoParse \/ ev = NoParse THEN FloatError
    ELSE FloatRound(neg, TrimZeros(iv * Pow10(fd) + fv,
                                   (IF eneg THEN -ev ELSE ev) - fd))

\* a digit run that may be absent
OptDigits(part) == IF part = <<>> THEN 0 ELSE DigitRun(part, 10, 0, TRUE)

\* the digits of the exponent after e and its sign; 0 when there is no e
ExpDigits(has, expo) ==
    IF has THEN DigitRun(Unsigned(expo), 10, 0, TRUE) ELSE 0

\* a decimal literal: its integer part, fraction part and exponent part; one
\* of the first two has digits
FloatParts(neg, ipart, fpart, has, expo) ==
    IF ipart = <<>> /\ fpart = <<>> THEN FloatError
    ELSE FloatValue(neg, OptDigits(ipart), OptDigits(fpart), DigitCount(fpart),
                    ExpDigits(has, expo), IsNeg(expo))

\* the mantissa of a decimal literal, split at its point (at dot, 0: none)
FloatMantissa(neg, mant, dot, has, expo) ==
    FloatParts(neg,
               IF dot = 0 THEN mant ELSE SubSeq(mant, 1, dot - 1),
               IF dot = 0 THEN <<>> ELSE SubSeq(mant, dot + 1, Len(mant)),
               has, expo)

\* a decimal literal split at its e (at epos, 0: none)
FloatSplit(neg, mant, epos, expo) ==
    FloatMantissa(neg, mant, FirstIn(mant, {"."}), epos # 0, expo)

\* the text of a float after its sign: a special value's name or a literal
FloatBody(neg, body, epos) ==
    IF Lower(body) \in {<<"i","n","f">>, <<"i","n","f","i","n","i","t","y">>}
    THEN FloatInf(neg)
    ELSE IF Lower(body) = <<"n","a","n">> THEN FloatNan
    ELSE FloatSplit(neg,
                    IF epos = 0 THEN body ELSE SubSeq(body, 1, epos - 1),
                    epos,
                    IF epos = 0 THEN <<>> ELSE SubSeq(body, epos + 1, Len(body)))

FloatSigned(t) == FloatBody(IsNeg(t), Unsigned(t), FirstIn(Unsigned(t), {"e", "E"}))

\* float(s): a value, or FloatError for ValueError
FloatParse(s) == FloatSigned(Strip(s, Whitespace))

\* try: f = float(s) / except ValueError: f = -1
FloatOrSentinel(f) == IF f = FloatError THEN Sentinel ELSE f

str2float(s) == FloatOrSentinel(FloatParse(s))

(***************************************************************************)
(* Configuration                                                           *)
(***************************************************************************)
metrics_prefix == "maser"

\* the catalog of analog channel sets, in the order the dictionary lists
\* (and so iterates) them
analog_chan_sets == <<
    [id    |-> <<"V","O","L","T","A","G","E","S">>,
     chans |-> <<<<" "," ","p","2","8"," "," ">>,
                 <<" "," ","p","1","8"," "," ">>,
                 <<" "," ","p","5"," "," "," ">>,
                 <<" "," ","n","1","8"," "," ">>,
                 <<"V","A","C","I","O","N"," ">>,
                 <<"T","H","R","M","R","E","F">>,
                 <<" "," ","p","0","0"," "," ">>,
                 <<" ","p","2"," ","R","E","F">>>>],
    [id    |-> <<"B","U","F","F","E","R","S"," ">>,
     chans |-> <<<<"R","C","V","R","1"," "," ">>,
                 <<"T","R","A","N","S"," "," ">>,
                 <<"S","Y","N","T","H"," "," ">>,
                 <<"D","I","S","T"," "," "," ">>,
                 <<" "," ","1"," "," "," "," ">>,
                 <<" "," ","2"," "," "," "," ">>,
                 <<" "," ","3"," "," "," "," ">>,
                 <<" "," ","4"," "," "," "," ">>>>],
    [id    |-> <<"M","U","L","T"," ","S","E","N">>,
     chans |-> <<<<"1","p","4"," ","G","H","Z">>,
                 <<"4","0","0","K","H","Z"," ">>,
                 <<"2","0","0","M","R","C"," ">>,
                 <<"2","0","M","H","Z"," "," ">>,
                 <<"2","0","0","M","R","F"," ">>,
                 <<"2","0","0","M","L","P"," ">>,
                 <<"2","0"," ","M","M","L","T">>,
                 <<"1","0"," ","R","E","F"," ">>>>],
    [id    |-> <<"C","U","R","R","E","N","T","S">>,
     chans |-> <<<<" "," ","p","2","8"," "," ">>,
                 <<"B","A","T","C","H","G"," ">>,
                 <<"V","A","C","P","M","P"," ">>,
                 <<"S","O","U","R","C","E"," ">>,
                 <<"S","T","S","E","L"," "," ">>,
                 <<"H","2","P","U","R"," "," ">>>>],
    [id    |-> <<"H","E","A","T","E","R","S"," ">>,
     chans |-> <<<<" ","R","C","V","R"," "," ">>,
                 <<"M","N","C","Y","L"," "," ">>,
                 <<"L","O","S","U","P"," "," ">>,
                 <<"O","U","T","E","L"," "," ">>,
                 <<" "," ","C","A","V"," "," ">>,
                 <<"G","A","U","G","E"," "," ">>>>],
    [id    |-> <<"C","O","N","T","R","O","L"," ">>,
     chans |-> <<<<"M","N","C","R","S","E"," ">>,
                 <<"U","P","N","E","C","K"," ">>,
                 <<"L","O","N","E","C","K"," ">>,
                 <<"M","N","F","I","N","E"," ">>,
                 <<"U","P","M","A","I","N"," ">>,
                 <<"L","O","M","A","I","N"," ">>>>],
    [id    |-> <<" ","M","I","S","C"," "," "," ">>,
     chans |-> <<<<" ","P","K"," ","P","H"," ">>,
                 <<" "," ","V","C","O"," "," ">>,
                 <<" "," "," ","I","F"," "," ">>,
                 <<"P","R","E","S","S"," "," ">>,
                 <<" ","1","M","H","Z"," "," ">>,
                 <<" ","G","A","I","N"," "," ">>,
                 <<"O","F","F","S","E","T"," ">>,
                 <<"R","A","W"," ","R","E","F">>>>],
    [id    |-> <<" ","T","E","M","P"," "," "," ">>,
     chans |-> <<<<"S","U","P"," ","P","L","T">>,
                 <<" ","R","C","V","R"," "," ">>,
                 <<" "," ","M","A","I","N"," ">>,
                 <<"T","O","P","C","A","B"," ">>,
                 <<"L","O","W","C","A","B"," ">>,
                 <<"O","U","T","E","L"," "," ">>,
                 <<" ","C","A","V"," ","L","F">>,
                 <<" ","C","A","V"," ","R","T">>>>]
>>

SYN  == <<"S","Y","N">>
DGSW == <<"D","G","S","W">>

(***************************************************************************)
(* The timestamp of status line 1                                          *)
(***************************************************************************)
\* the maximal runs of non-white-space characters of s, in order
RECURSIVE Tokens(_)
Tokens(s) ==
    LET t == LStrip(s, Whitespace)
        n == FirstIn(t, Whitespace)
    IN  IF t = <<>> THEN <<>>
        ELSE IF n = 0 THEN <<t>>
        ELSE <<SubSeq(t, 1, n - 1)>> \o Tokens(SubSeq(t, n, Len(t)))

AllDigits(t) == \A i \in 1..Len(t) : t[i] \in Digits

\* a field of strptime: between lo and hi digits, its number within vlo..vhi
FieldOK(t, lo, hi, vlo, vhi) ==
    /\ Len(t) \in lo..hi
    /\ AllDigits(t)
    /\ DigitRun(t, 10, 0, TRUE) \in vlo..vhi

IsLeap(y) == (y % 4 = 0 /\ y % 100 # 0) \/ y % 400 = 0

\* leap years before year y
LeapsBefore(y) == ((y - 1) \div 4) - ((y - 1) \div 100) + ((y - 1) \div 400)

\* days from 1970-01-01 to January 1 of year y
DaysToYear(y) == 365 * (y - 1970) + LeapsBefore(y) - LeapsBefore(1970)

\* the year of %y: 69..99 are 1969..1999, 00..68 are 2000..2068
YearOf(yy) == IF yy <= 68 THEN 2000 + yy ELSE 1900 + yy

Number(t) == DigitRun(t, 10, 0, TRUE)

\* the POSIX time of the five fields year, day of year, hour, minute, second
TimeOfTokens(tk) ==
    IF /\ Len(tk) = 5
       /\ FieldOK(tk[1], 2, 2, 0, 99)
       /\ FieldOK(tk[2], 1, 3, 1, 366)
       /\ FieldOK(tk[3], 1, 2, 0, 23)
       /\ FieldOK(tk[4], 1, 2, 0, 59)
       /\ FieldOK(tk[5], 1, 2, 0, 59)
    THEN [kind |-> "epoch", neg |-> FALSE,
          m |-> DaysToYear(YearOf(Number(tk[1]))) + Number(tk[2]) - 1,
          e |-> Number(tk[3]) * 3600 + Number(tk[4]) * 60 + Number(tk[5])]
    ELSE Sentinel

\* datetime.strptime(s + " +0000", "%y %j %H %M %S %z").timestamp(), or
\* Sentinel when strptime raises ValueError.  The fields are separated by
\* white space, the text starts with the year, and a second of 60 or 61
\* matches the format but is no datetime.
ParseTime(s) ==
    IF s # <<>> /\ Head(s) \notin Whitespace THEN TimeOfTokens(Tokens(s)) ELSE Sentinel

(***************************************************************************)
(* Field decoder                                                           *)
(***************************************************************************)
\* One formatted metric line: the metric's name after the prefix, its labels
\* in dictionary order (each a pair of label name and value text; they are
\* written as {name="value", ...} when there are any), and its value.
format_metric(metric_name, value, labels) ==
    [name   |-> <<metrics_prefix, "_">> \o metric_name,
     labels |-> labels,
     value  |-> value]

\* format_metric called with a value only: the labels default to none
format_value(metric_name, value) == format_metric(metric_name, value, <<>>)

\* line[i] raises IndexError unless i is a position of the line
Indexable(line, i) == i < Len(line)

\* what a parser hands to write_metrics, or the exception it raises instead
Decoded(file_id, data_string) ==
    [raised |-> "none", file_id |-> file_id, data_string |-> data_string]

Raised(exc) == [raised |-> exc, file_id |-> <<>>, data_string |-> <<>>]

\* A column of a status line: the metric's name, what the column holds
\* ("slice": the label `label` with the text line[lo:hi]; "char": the label
\* with the character line[lo]; "int": an integer of base `base` in
\* line[lo:hi]; "time": the timestamp in line[lo:hi]).
Col(name, kind, label, lo, hi, base) ==
    [name |-> name, kind |-> kind, label |-> label, lo |-> lo, hi |-> hi, base |-> base]

LabelSlice(name, label, lo, hi) == Col(name, "slice", label, lo, hi, 0)
LabelChar(name, label, i) == Col(name, "char", label, i, i + 1, 0)
IntCol(name, lo, hi) == Col(name, "int", "", lo, hi, 10)

\* the columns of status line 1, in the order parse_status_line1 reads them
Status1Cols == <<
    LabelSlice("info", "name", 0, 8),
    Col("utc_time", "time", "", 9, 24, 0),
    LabelSlice("autotuner_status_raw", "raw", 25, 45),
    LabelChar("autotuner_mode", "mode", 25),
    LabelChar("autotuner_h2flux_state", "state", 26),
    LabelChar("autotuner_measurement_state", "state", 27),
    IntCol("autotuner_measurement_count_seconds", 28, 30),
    LabelChar("autotuner_h2flux_ctrl_device", "device", 30),
    LabelChar("autotuner_sign", "sign", 31),
    IntCol("autotuner_max_diff", 32, 38),
    LabelChar("autotuner_shift_direction", "direction", 38),
    IntCol("autotuner_bit_shift", 39, 41),
    IntCol("autotuner_dac1_chan", 41, 43),
    IntCol("autotuner_dac2_chan", 43, 45),
    IntCol("autotuner_measurement_msb", 46, 48),
    IntCol("autotuner_register_msb", 49, 51),
    IntCol("autotuner_register_number", 52, 58),
    LabelChar("synthesizer_mode", "mode", 63),
    IntCol("synthesizer_number_a", 65, 69),
    IntCol("synthesizer_number_b", 70, 74),
    IntCol("synthesizer_number_c", 75, 78) >>

\* the columns of status line 2, in the order parse_status_line2 reads them
Status2Cols == <<
    IntCol("autotuner_wait_interval_seconds", 0, 3),
    IntCol("autotuner_count_seconds", 5, 9),
    Col("digital_status_word", "int", "", 15, 27, 2),
    IntCol("dac1_channel", 35, 37),
    IntCol("dac1_msb", 38, 40),
    IntCol("dac2_channel", 41, 43),
    IntCol("dac2_msb", 44, 46) >>

\* the value of a numeric column
ColValue(text, c) ==
    IF c.kind = "int" THEN str2int(text, c.base)
    ELSE IF c.kind = "time" THEN ParseTime(text)
    ELSE IntVal(1)

\* the metric line format_metric makes of one column of the line
ColMetric(line, c) ==
    format_metric(<<c.name>>,
                  ColValue(Slice(line, c.lo, c.hi), c),
                  IF c.kind \in {"slice", "char"}
                  THEN << <<c.label, Slice(line, c.lo, c.hi)>> >> ELSE <<>>)

\* the columns read with line[i]
CharCols(cols) == {n \in 1..Len(cols) : cols[n].kind = "char"}

\* a status line parser: it raises IndexError at the first line[i] past the
\* end of the line, and else hands one metric line per column to
\* write_metrics
ParseCols(line, cols, file_id) ==
    IF \E n \in CharCols(cols) : ~Indexable(line, cols[n].lo)
    THEN Raised("IndexError")
    ELSE Decoded(file_id, [n \in 1..Len(cols) |-> ColMetric(line, cols[n])])

parse_status_line1(line) == ParseCols(line, Status1Cols, <<"status1">>)

\* a status line 2 parser that publishes under the name of status line 1
parse_status_line2_as_status1(line) == ParseCols(line, Status2Cols, <<"status1">>)

parse_status_line2(line) == ParseCols(line, Status2Cols, <<"status2">>)

\* the catalog entry of an analog set identifier
ChanSet(analog_set_id) ==
    CHOOSE k \in 1..Len(analog_chan_sets) : analog_chan_sets[k].id = analog_set_id

\* a decoder without the exception for the channel named "if"
ChanRangeByIndex(ichan, chan_name) == <<15 + ichan * 8, 15 + ichan * 8 + 6>>

\* the columns of the channel at index ichan (from 0) of a set: its own,
\* or the fixed wider columns for the channel named "if"
ChanRange(ichan, chan_name) ==
    IF chan_name = <<"i","f">> THEN <<30, 37>>
    ELSE <<15 + ichan * 8, 15 + ichan * 8 + 6>>

ChanVal(line, range) == str2float(Slice(line, range[1], range[2]))

\* the metric line of one channel of an analog line
ChanMetric(line, analog_set_name, ichan, chan_name) ==
    format_value(analog_set_name \o <<"_">> \o chan_name,
                 ChanVal(line, ChanRange(ichan, chan_name)))

ParseChans(line, analog_set_name, chans) ==
    Decoded(analog_set_name,
            [n \in 1..Len(chans) |->
               ChanMetric(line, analog_set_name, n - 1, Normalize(chans[n]))])

parse_analog_chan_line(line, analog_set_id) ==
    ParseChans(line, Normalize(analog_set_id),
               analog_chan_sets[ChanSet(analog_set_id)].chans)

(***************************************************************************)
(* Frame classifier                                                        *)
(***************************************************************************)
\* next((s for s in analog_chan_sets.keys() if s in line), False): the index
\* of the first set, from index k on, whose identifier the line contains; 0
\* when there is none
RECURSIVE FirstSetIn(_, _)
FirstSetIn(line, k) ==
    IF k > Len(analog_chan_sets) THEN 0
    ELSE IF Contains(line, analog_chan_sets[k].id) THEN k
    ELSE FirstSetIn(line, k + 1)

\* what became of a line that no parser was called for
NotCalled == [call |-> "none", set |-> 0, out |-> Raised("none")]

\* a classifier that tests DGSW before SYN
detect_status2_first(line) ==
    IF Contains(line, DGSW)
    THEN [call |-> "parse_status_line2", set |-> 0, out |-> parse_status_line2(line)]
    ELSE IF Contains(line, SYN)
    THEN [call |-> "parse_status_line1", set |-> 0, out |-> parse_status_line1(line)]
    ELSE IF FirstSetIn(line, 1) # 0
    THEN [call |-> "parse_analog_chan_line", set |-> FirstSetIn(line, 1),
          out |-> parse_analog_chan_line(line, analog_chan_sets[FirstSetIn(line, 1)].id)]
    ELSE NotCalled

\* detect_metric_line(line): the parser called (and for the analog parser
\* the set it is called with), and what that parser does
detect_metric_line(line) ==
    IF Contains(line, SYN)
    THEN [call |-> "parse_status_line1", set |-> 0, out |-> parse_status_line1(line)]
    ELSE IF Contains(line, DGSW)
    THEN [call |-> "parse_status_line2", set |-> 0, out |-> parse_status_line2(line)]
    ELSE LET analog_set_id == FirstSetIn(line, 1)
         IN  IF analog_set_id # 0
             THEN [call |-> "parse_analog_chan_line", set |-> analog_set_id,
                   out |-> parse_analog_chan_line(line, analog_chan_sets[analog_set_id].id)]
             ELSE NotCalled

(***************************************************************************)
(* The programs                                                            *)
(*                                                                         *)
(* prog tells which script runs: "mon" (nr-maser-mon.py: the main thread   *)
(* and the workers n2m = relay_nrcan_to_maser, m2n = relay_maser_to_nrcan) *)
(* or "relay" (serial-relay-nrcan-to-maser.py: req = relay_maser_requests, *)
(* which runs in that script's only thread).                               *)
(***************************************************************************)
VARIABLES
    prog,        \* the script that runs
    pc,          \* each thread's position
    raised,      \* the exception that ended a thread: [exc, at], at its position
    rx,          \* per link: the bytes that have arrived and are not read yet
    rd,          \* per link: the bytes read from it so far, in order
    tx,          \* per link: the bytes written to it so far, in order
    is_open,     \* per link: the port is open
    raw_byte,    \* per thread: the byte last read
    byte,        \* per thread: the character it decoded to
    line,        \* per thread: the frame buffer
    lock,        \* the holder of the log lock, or "free"
    logfile,     \* the records the file handler has written
    logstrm,     \* the records the stream handler has written
    called,      \* the parser detect_metric_line called for the frame: [call, set]
    wm,          \* the arguments of the write_metrics call in progress
    wm_calls,    \* every write_metrics call entered so far, in order
    files,       \* per path of the metrics directory: the file there
    seen         \* what an external reader of a final path last saw

vars == <<prog, pc, raised, rx, rd, tx, is_open, raw_byte, byte, line, lock,
          logfile, logstrm, called, wm, wm_calls, files, seen>>

Threads == {"main", "n2m", "m2n", "req"}
Workers == {"n2m", "m2n"}
Loops   == {"n2m", "m2n", "req"}
Links   == {"nrcan", "maser"}

\* the link a relay loop reads and the link it writes
Src(t) == IF t = "m2n" THEN "maser" ELSE "nrcan"
Dst(t) == IF t = "m2n" THEN "nrcan" ELSE "maser"

\* a byte that is no character of the encoding
BadByte == "\\xff"

\* raw_byte.decode(): the character of a 7-bit byte; any other byte raises
Decodable(b) == b # BadByte
Decode(b) == b

\* a sentinel policy that knows F only
IsTerminatorOnlyF(t, c) == IF t = "m2n" THEN c = "\n" ELSE c = "F"

\* the byte that ends a frame, for each loop
IsTerminator(t, c) == IF t = "m2n" THEN c = "\n" ELSE c \in {"F", "D"}

\* the text each loop puts before the frame in its log record
LogPrefix(t) == CASE t = "n2m" -> "NRCan: " [] t = "m2n" -> "Maser: " [] OTHER -> ""

InterruptMessage(p) ==
    IF p = "mon" THEN <<"Relay and logging stopped by keyboard interrupt">>
    ELSE <<"Relay from NRCan to maser stopped">>

LogRecord(prefix, text) == [prefix |-> prefix, text |-> text]

NoFile == [exists |-> FALSE, data |-> <<>>]
File(data) == [exists |-> TRUE, data |-> data]

\* the identifiers write_metrics is called with
FileIds ==
    {<<"status1">>, <<"status2">>}
      \cup {Normalize(analog_chan_sets[k].id) : k \in 1..Len(analog_chan_sets)}

metrics_dir == "/var/lib/node_exporter/textfile_collector/"

\* the path a group is published at, and the path its text is written to
final_path(file_id) == <<metrics_dir, metrics_prefix, "_">> \o file_id \o <<".prom">>
\* a publisher that writes the text straight to the final path
temporary_path_is_final(file_id) == final_path(file_id)

temporary_path(file_id) == final_path(file_id) \o <<".$$">>

Paths == {final_path(f) : f \in FileIds} \cup {temporary_path(f) : f \in FileIds}

NoException == [exc |-> "none", at |-> "none"]
NoCall == [call |-> "none", set |-> 0]
NoArgs == [file_id |-> <<>>, data_string |-> <<>>]
\* what a reader saw: the group, the file at its final path, and where the
\* publisher was then (its position and the number of its calls so far)
NothingSeen == [file_id |-> <<>>, file |-> NoFile, during |-> "none", calls |-> 0]

\* the process has exited: its threads, daemon workers included, run no more
Exited == pc["main"] = "exited" \/ pc["req"] = "exited"

\* a thread that notes the exception and goes on to its next read
DieAndCarryOn(t, exc) ==
    /\ pc' = [pc EXCEPT ![t] = "read"]
    /\ raised' = [raised EXCEPT ![t] = [exc |-> exc, at |-> pc[t]]]

\* a thread ends with an exception raised at its present position
Die(t, exc) ==
    /\ pc' = [pc EXCEPT ![t] = "dead"]
    /\ raised' = [raised EXCEPT ![t] = [exc |-> exc, at |-> pc[t]]]

\* the state once the ports are open and the lock exists (nr-maser-mon.py
\* line 84; serial-relay-nrcan-to-maser.py line 62), with `arriving` the
\* bytes that will arrive on each link
InitWith(p, arriving) ==
    /\ prog = p
    /\ pc = [t \in Threads |->
               IF p = "mon" THEN (IF t = "main" THEN "start_n2m"
                                  ELSE IF t \in Workers THEN "unstarted" ELSE "off")
               ELSE (IF t = "req" THEN "read" ELSE "off")]
    /\ raised = [t \in Threads |-> NoException]
    /\ rx = arriving
    /\ rd = [l \in Links |-> <<>>]
    /\ tx = [l \in Links |-> <<>>]
    /\ is_open = [l \in Links |-> TRUE]
    /\ raw_byte = [t \in Threads |-> ""]
    /\ byte = [t \in Threads |-> ""]
    /\ line = [t \in Threads |-> <<>>]
    /\ lock = "free"
    /\ logfile = <<>>
    /\ logstrm = <<>>
    /\ called = NoCall
    /\ wm = NoArgs
    /\ wm_calls = <<>>
    /\ files = [q \in Paths |-> NoFile]
    /\ seen = NothingSeen

(***************************************************************************)
(* main of nr-maser-mon.py                                                 *)
(***************************************************************************)
\* nrcan_to_maser_thread.start()
StartN2M ==
    /\ pc["main"] = "start_n2m"
    /\ pc' = [pc EXCEPT !["main"] = "start_m2n", !["n2m"] = "read"]
    /\ UNCHANGED <<prog, raised, rx, rd, tx, is_open, raw_byte, byte, line, lock,
                   logfile, logstrm, called, wm, wm_calls, files, seen>>

\* maser_to_nrcan_thread.start(); main then enters its try block and spins
StartM2N ==
    /\ pc["main"] = "start_m2n"
    /\ pc' = [pc EXCEPT !["main"] = "spin", !["m2n"] = "read"]
    /\ UNCHANGED <<prog, raised, rx, rd, tx, is_open, raw_byte, byte, line, lock,
                   logfile, logstrm, called, wm, wm_calls, files, seen>>

\* the thread a keyboard interrupt is raised in, and where it may be then
Interruptible ==
    \/ prog = "mon" /\ pc["main"] = "spin"
    \/ prog = "relay" /\ pc["req"] \in {"read", "write", "decode", "append", "check",
                                        "log_file", "log_strm", "reset"}

MainThread == IF prog = "mon" THEN "main" ELSE "req"

\* a keyboard interrupt arrives: control passes to the except clause
Interrupt ==
    /\ Interruptible
    /\ pc' = [pc EXCEPT ![MainThread] = "except"]
    /\ UNCHANGED <<prog, raised, rx, rd, tx, is_open, raw_byte, byte, line, lock,
                   logfile, logstrm, called, wm, wm_calls, files, seen>>

\* logger.info(...) of the except clause: the file handler writes the record
ExceptLogFile ==
    /\ pc[MainThread] = "except"
    /\ logfile' = Append(logfile, LogRecord("", InterruptMessage(prog)))
    /\ pc' = [pc EXCEPT ![MainThread] = "except_strm"]
    /\ UNCHANGED <<prog, raised, rx, rd, tx, is_open, raw_byte, byte, line, lock,
                   logstrm, called, wm, wm_calls, files, seen>>

\* ... and then the stream handler does
ExceptLogStrm ==
    /\ pc[MainThread] = "except_strm"
    /\ logstrm' = Append(logstrm, LogRecord("", InterruptMessage(prog)))
    /\ pc' = [pc EXCEPT ![MainThread] = "close_maser"]
    /\ UNCHANGED <<prog, raised, rx, rd, tx, is_open, raw_byte, byte, line, lock,
                   logfile, called, wm, wm_calls, files, seen>>

\* ser_maser.close()
CloseMaser ==
    /\ pc[MainThread] = "close_maser"
    /\ is_open' = [is_open EXCEPT !["maser"] = FALSE]
    /\ pc' = [pc EXCEPT ![MainThread] = "close_nrcan"]
    /\ UNCHANGED <<prog, raised, rx, rd, tx, raw_byte, byte, line, lock,
                   logfile, logstrm, called, wm, wm_calls, files, seen>>

\* a shutdown that leaves the NRCan port open
CloseNrcanForgotten ==
    /\ pc[MainThread] = "close_nrcan"
    /\ pc' = [pc EXCEPT ![MainThread] = "return"]
    /\ UNCHANGED <<prog, raised, rx, rd, tx, is_open, raw_byte, byte, line, lock,
                   logfile, logstrm, called, wm, wm_calls, files, seen>>

\* ser_nrcan.close()
CloseNrcan ==
    /\ pc[MainThread] = "close_nrcan"
    /\ is_open' = [is_open EXCEPT !["nrcan"] = FALSE]
    /\ pc' = [pc EXCEPT ![MainThread] = "return"]
    /\ UNCHANGED <<prog, raised, rx, rd, tx, raw_byte, byte, line, lock,
                   logfile, logstrm, called, wm, wm_calls, files, seen>>

\* the function returns and sys.exit ends the process
Exit ==
    /\ pc[MainThread] = "return"
    /\ pc' = [pc EXCEPT ![MainThread] = "exited"]
    /\ UNCHANGED <<prog, raised, rx, rd, tx, is_open, raw_byte, byte, line, lock,
                   logfile, logstrm, called, wm, wm_calls, files, seen>>

(***************************************************************************)
(* The relay loops: relay_nrcan_to_maser, relay_maser_to_nrcan and         *)
(* relay_maser_requests.  The workers are daemon threads: they run only    *)
(* while the process has not exited.                                       *)
(***************************************************************************)
Running(t) == t \in Loops /\ ~Exited

\* raw_byte = ser.read(): blocks until one byte has arrived
Read(t) ==
    /\ Running(t) /\ pc[t] = "read"
    /\ is_open[Src(t)]
    /\ rx[Src(t)] # <<>>
    /\ raw_byte' = [raw_byte EXCEPT ![t] = Head(rx[Src(t)])]
    /\ rx' = [rx EXCEPT ![Src(t)] = Tail(@)]
    /\ rd' = [rd EXCEPT ![Src(t)] = Append(@, Head(rx[Src(t)]))]
    /\ pc' = [pc EXCEPT ![t] = "write"]
    /\ UNCHANGED <<prog, raised, tx, is_open, byte, line, lock,
                   logfile, logstrm, called, wm, wm_calls, files, seen>>

\* the read raises: the device is gone or the port has been closed
ReadFail(t) ==
    /\ Running(t) /\ pc[t] = "read"
    /\ Die(t, "SerialException")
    /\ UNCHANGED <<prog, rx, rd, tx, is_open, raw_byte, byte, line, lock,
                   logfile, logstrm, called, wm, wm_calls, files, seen>>

\* a loop that decodes first and forwards only what decodes
WriteOnlyDecodable(t) ==
    /\ Running(t) /\ pc[t] = "write"
    /\ is_open[Dst(t)]
    /\ tx' = [tx EXCEPT ![Dst(t)] = IF Decodable(raw_byte[t])
                                     THEN Append(@, raw_byte[t]) ELSE @]
    /\ pc' = [pc EXCEPT ![t] = "decode"]
    /\ UNCHANGED <<prog, raised, rx, rd, is_open, raw_byte, byte, line, lock,
                   logfile, logstrm, called, wm, wm_calls, files, seen>>

\* ser.write(raw_byte): the byte as read
Write(t) ==
    /\ Running(t) /\ pc[t] = "write"
    /\ is_open[Dst(t)]
    /\ tx' = [tx EXCEPT ![Dst(t)] = Append(@, raw_byte[t])]
    /\ pc' = [pc EXCEPT ![t] = "decode"]
    /\ UNCHANGED <<prog, raised, rx, rd, is_open, raw_byte, byte, line, lock,
                   logfile, logstrm, called, wm, wm_calls, files, seen>>

\* the write raises: the device is gone or the port has been closed
WriteFail(t) ==
    /\ Running(t) /\ pc[t] = "write"
    /\ Die(t, "SerialException")
    /\ UNCHANGED <<prog, rx, rd, tx, is_open, raw_byte, byte, line, lock,
                   logfile, logstrm, called, wm, wm_calls, files, seen>>

\* byte = raw_byte.decode()
DecodeByte(t) ==
    /\ Running(t) /\ pc[t] = "decode"
    /\ IF Decodable(raw_byte[t])
       THEN /\ byte' = [byte EXCEPT ![t] = Decode(raw_byte[t])]
            /\ pc' = [pc EXCEPT ![t] = "append"]
            /\ UNCHANGED raised
       ELSE /\ Die(t, "UnicodeDecodeError")
            /\ UNCHANGED byte
    /\ UNCHANGED <<prog, rx, rd, tx, is_open, raw_byte, line, lock,
                   logfile, logstrm, called, wm, wm_calls, files, seen>>

\* line += byte
AppendByte(t) ==
    /\ Running(t) /\ pc[t] = "append"
    /\ line' = [line EXCEPT ![t] = Append(@, byte[t])]
    /\ pc' = [pc EXCEPT ![t] = "check"]
    /\ UNCHANGED <<prog, raised, rx, rd, tx, is_open, raw_byte, byte, lock,
                   logfile, logstrm, called, wm, wm_calls, files, seen>>

\* where a loop goes once its byte ends a frame
AfterTerminator(t) ==
    CASE t = "m2n" -> "strip" [] t = "n2m" -> "lock" [] OTHER -> "log_file"

\* a terminator test that drops a line of CR and LF characters only
CheckSkipsBlank(t) ==
    /\ Running(t) /\ pc[t] = "check"
    /\ pc' = [pc EXCEPT ![t] = IF ~IsTerminator(t, byte[t]) THEN "read"
                               ELSE IF Strip(line[t], {"\r", "\n"}) = <<>> THEN "reset"
                               ELSE AfterTerminator(t)]
    /\ UNCHANGED <<prog, raised, rx, rd, tx, is_open, raw_byte, byte, line, lock,
                   logfile, logstrm, called, wm, wm_calls, files, seen>>

\* if byte == "F" or byte == "D": / if byte == "\n":
Check(t) ==
    /\ Running(t) /\ pc[t] = "check"
    /\ pc' = [pc EXCEPT ![t] = IF IsTerminator(t, byte[t])
                               THEN AfterTerminator(t) ELSE "read"]
    /\ UNCHANGED <<prog, raised, rx, rd, tx, is_open, raw_byte, byte, line, lock,
                   logfile, logstrm, called, wm, wm_calls, files, seen>>

\* a loop that strips the end of the line only: line.rstrip("\r\n")
StripLineEnd ==
    /\ Running("m2n") /\ pc["m2n"] = "strip"
    /\ line' = [line EXCEPT !["m2n"] = RStrip(@, {"\r", "\n"})]
    /\ pc' = [pc EXCEPT !["m2n"] = "lock"]
    /\ UNCHANGED <<prog, raised, rx, rd, tx, is_open, raw_byte, byte, lock,
                   logfile, logstrm, called, wm, wm_calls, files, seen>>

\* line = line.strip("\r\n")
StripLine ==
    /\ Running("m2n") /\ pc["m2n"] = "strip"
    /\ line' = [line EXCEPT !["m2n"] = Strip(@, {"\r", "\n"})]
    /\ pc' = [pc EXCEPT !["m2n"] = "lock"]
    /\ UNCHANGED <<prog, raised, rx, rd, tx, is_open, raw_byte, byte, lock,
                   logfile, logstrm, called, wm, wm_calls, files, seen>>

\* a log write that does not wait for the lock
AcquireWithoutWaiting(t) ==
    /\ Running(t) /\ pc[t] = "lock"
    /\ lock' = t
    /\ pc' = [pc EXCEPT ![t] = "log_file"]
    /\ UNCHANGED <<prog, raised, rx, rd, tx, is_open, raw_byte, byte, line,
                   logfile, logstrm, called, wm, wm_calls, files, seen>>

\* with lock: entered once the lock is free
Acquire(t) ==
    /\ Running(t) /\ pc[t] = "lock"
    /\ lock = "free"
    /\ lock' = t
    /\ pc' = [pc EXCEPT ![t] = "log_file"]
    /\ UNCHANGED <<prog, raised, rx, rd, tx, is_open, raw_byte, byte, line,
                   logfile, logstrm, called, wm, wm_calls, files, seen>>

\* a file handler that writes the record twice
LogFileTwice(t) ==
    /\ Running(t) /\ pc[t] = "log_file"
    /\ logfile' = logfile \o <<LogRecord(LogPrefix(t), line[t]), LogRecord(LogPrefix(t), line[t])>>
    /\ pc' = [pc EXCEPT ![t] = "log_strm"]
    /\ UNCHANGED <<prog, raised, rx, rd, tx, is_open, raw_byte, byte, line, lock,
                   logstrm, called, wm, wm_calls, files, seen>>

\* logger.info(prefix + line): the file handler writes the record
LogFile(t) ==
    /\ Running(t) /\ pc[t] = "log_file"
    /\ logfile' = Append(logfile, LogRecord(LogPrefix(t), line[t]))
    /\ pc' = [pc EXCEPT ![t] = "log_strm"]
    /\ UNCHANGED <<prog, raised, rx, rd, tx, is_open, raw_byte, byte, line, lock,
                   logstrm, called, wm, wm_calls, files, seen>>

\* ... and then the stream handler does
LogStrm(t) ==
    /\ Running(t) /\ pc[t] = "log_strm"
    /\ logstrm' = Append(logstrm, LogRecord(LogPrefix(t), line[t]))
    /\ pc' = [pc EXCEPT ![t] = IF t = "req" THEN "reset" ELSE "unlock"]
    /\ UNCHANGED <<prog, raised, rx, rd, tx, is_open, raw_byte, byte, line, lock,
                   logfile, called, wm, wm_calls, files, seen>>

\* a with block that leaves the lock held when it ends
ReleaseForgotten(t) ==
    /\ Running(t) /\ pc[t] = "unlock"
    /\ pc' = [pc EXCEPT ![t] = IF t = "m2n" THEN "detect" ELSE "reset"]
    /\ UNCHANGED <<prog, raised, rx, rd, tx, is_open, raw_byte, byte, line, lock,
                   logfile, logstrm, called, wm, wm_calls, files, seen>>

\* the with block ends: the lock is released
Release(t) ==
    /\ Running(t) /\ pc[t] = "unlock"
    /\ lock' = "free"
    /\ pc' = [pc EXCEPT ![t] = IF t = "m2n" THEN "detect" ELSE "reset"]
    /\ UNCHANGED <<prog, raised, rx, rd, tx, is_open, raw_byte, byte, line,
                   logfile, logstrm, called, wm, wm_calls, files, seen>>

\* a dispatch that hands the publish over and returns to the loop at once
DispatchInBackground(d) ==
    /\ called' = [call |-> d.call, set |-> d.set]
    /\ pc' = [pc EXCEPT !["m2n"] = "reset"]
    /\ IF d.call = "none" \/ d.out.raised # "none"
       THEN UNCHANGED <<wm, wm_calls>>
       ELSE /\ wm' = [file_id |-> d.out.file_id, data_string |-> d.out.data_string]
            /\ wm_calls' = Append(wm_calls, wm')
    /\ UNCHANGED raised

\* what detect_metric_line does with outcome d: it returns with no parser
\* called, the parser raises, or the parser enters write_metrics
Dispatch(d) ==
    /\ called' = [call |-> d.call, set |-> d.set]
    /\ IF d.call = "none"
       THEN /\ pc' = [pc EXCEPT !["m2n"] = "reset"]
            /\ UNCHANGED <<raised, wm, wm_calls>>
       ELSE IF d.out.raised # "none"
       THEN /\ Die("m2n", d.out.raised)
            /\ UNCHANGED <<wm, wm_calls>>
       ELSE /\ wm' = [file_id |-> d.out.file_id, data_string |-> d.out.data_string]
            /\ wm_calls' = Append(wm_calls, wm')
            /\ pc' = [pc EXCEPT !["m2n"] = "wm_open"]
            /\ UNCHANGED raised

\* detect_metric_line(line), up to the parser's call of write_metrics
Detect ==
    /\ Running("m2n") /\ pc["m2n"] = "detect"
    /\ Dispatch(detect_metric_line(line["m2n"]))
    /\ UNCHANGED <<prog, rx, rd, tx, is_open, raw_byte, byte, line, lock,
                   logfile, logstrm, files, seen>>

\* open(temporary_path, "w"): the file is created or emptied
WmOpen ==
    /\ Running("m2n") /\ pc["m2n"] = "wm_open"
    /\ files' = [files EXCEPT ![temporary_path(wm.file_id)] = File(<<>>)]
    /\ pc' = [pc EXCEPT !["m2n"] = "wm_write"]
    /\ UNCHANGED <<prog, raised, rx, rd, tx, is_open, raw_byte, byte, line, lock,
                   logfile, logstrm, called, wm, wm_calls, seen>>

\* fl.write(data_string) and the close that ends the with block: the text
\* reaches the opened file a metric line at a time
WmWrite ==
    /\ Running("m2n") /\ pc["m2n"] = "wm_write"
    /\ LET fl   == temporary_path(wm.file_id)
           n    == Len(files[fl].data) + 1
           data == IF n <= Len(wm.data_string)
                   THEN Append(files[fl].data, wm.data_string[n]) ELSE files[fl].data
       IN  /\ files' = [files EXCEPT ![fl] = File(data)]
           /\ pc' = [pc EXCEPT !["m2n"] = IF Len(data) = Len(wm.data_string)
                                          THEN "wm_rename" ELSE "wm_write"]
    /\ UNCHANGED <<prog, raised, rx, rd, tx, is_open, raw_byte, byte, line, lock,
                   logfile, logstrm, called, wm, wm_calls, seen>>

\* a publisher that copies the temporary file to the final path and leaves
\* it there
RenameAsCopy(fs, src, dst) == [q \in DOMAIN fs |-> IF q = dst THEN fs[src] ELSE fs[q]]

\* os.rename(src, dst) on the files: dst becomes the file src named, in one
\* step; renaming a path onto itself changes nothing
Rename(fs, src, dst) ==
    IF src = dst THEN fs
    ELSE [q \in DOMAIN fs |-> IF q = dst THEN fs[src]
                              ELSE IF q = src THEN NoFile ELSE fs[q]]

\* os.rename(temporary_path, final_path), and the return to the relay loop
WmRename ==
    /\ Running("m2n") /\ pc["m2n"] = "wm_rename"
    /\ files' = Rename(files, temporary_path(wm.file_id), final_path(wm.file_id))
    /\ wm' = NoArgs
    /\ pc' = [pc EXCEPT !["m2n"] = "reset"]
    /\ UNCHANGED <<prog, raised, rx, rd, tx, is_open, raw_byte, byte, line, lock,
                   logfile, logstrm, called, wm_calls, seen>>

\* a loop that goes back to its read with the frame still in the buffer
ResetKeepsLine(t) ==
    /\ Running(t) /\ pc[t] = "reset"
    /\ called' = IF t = "m2n" THEN NoCall ELSE called
    /\ pc' = [pc EXCEPT ![t] = "read"]
    /\ UNCHANGED <<prog, raised, rx, rd, tx, is_open, raw_byte, byte, line, lock,
                   logfile, logstrm, wm, wm_calls, files, seen>>

\* line = ""
Reset(t) ==
    /\ Running(t) /\ pc[t] = "reset"
    /\ line' = [line EXCEPT ![t] = <<>>]
    /\ called' = IF t = "m2n" THEN NoCall ELSE called
    /\ pc' = [pc EXCEPT ![t] = "read"]
    /\ UNCHANGED <<prog, raised, rx, rd, tx, is_open, raw_byte, byte, lock,
                   logfile, logstrm, wm, wm_calls, files, seen>>

\* an external reader (the textfile collector) reads the final path of a
\* group
ReadFinal(f) ==
    /\ prog = "mon" /\ ~Exited
    /\ seen' = [file_id |-> f, file |-> files[final_path(f)],
                during |-> pc["m2n"], calls |-> Len(wm_calls)]
    /\ UNCHANGED <<prog, pc, raised, rx, rd, tx, is_open, raw_byte, byte, line, lock,
                   logfile, logstrm, called, wm, wm_calls, files>>

(***************************************************************************)
(* Inputs                                                                  *)
(***************************************************************************)
\* the streams made of at most n of the given frames, end to end
RECURSIVE Streams(_, _)
Streams(frames, n) ==
    IF n = 0 THEN {<<>>}
    ELSE {<<>>} \cup {f \o s : f \in frames, s \in Streams(frames, n - 1)}

\* every sequence of at most n of the given bytes
AllSeqs(alphabet, n) == UNION {[1..k -> alphabet] : k \in 0..n}

\* requests of the NRCan machine: two frames and a byte that is no character
NrcanFrames == { <<"A","F">>, <<"D">>, <<BadByte>> }

\* output of the maser: two lines that decode as status line 2, a line that
\* holds SYN and is shorter than a status line 1, an empty line, and a byte
\* that is no character
MaserFrames == { <<"1","2"," ","D","G","S","W","\n">>,
                 <<"D","G","S","W","\r","\n">>,
                 <<"S","Y","N","\n">>,
                 <<"\r","\n">>,
                 <<BadByte>> }

\* what arrives on the two links while nr-maser-mon.py runs
MonInputs ==
    {[nrcan |-> a, maser |-> b] :
        <<a, b>> \in UNION {Streams(NrcanFrames, i) \X Streams(MaserFrames, MaxFrames - i)
                              : i \in 0..MaxFrames}}

\* what arrives while serial-relay-nrcan-to-maser.py runs: it reads only
\* the NRCan link
RelayInputs == {[nrcan |-> a, maser |-> <<>>] : a \in Streams(NrcanFrames, MaxFrames)}

Init ==
    \/ \E a \in MonInputs : InitWith("mon", a)
    \/ \E a \in RelayInputs : InitWith("relay", a)

Next ==
    \/ StartN2M \/ StartM2N
    \/ Interrupt \/ ExceptLogFile \/ ExceptLogStrm \/ CloseMaser \/ CloseNrcan \/ Exit
    \/ \E t \in Loops :
          \/ Read(t) \/ ReadFail(t) \/ Write(t) \/ WriteFail(t)
          \/ DecodeByte(t) \/ AppendByte(t) \/ Check(t)
          \/ Acquire(t) \/ LogFile(t) \/ LogStrm(t) \/ Release(t) \/ Reset(t)
    \/ StripLine \/ Detect \/ WmOpen \/ WmWrite \/ WmRename

\* Both programs, with keyboard interrupts and serial failures, on every
\* input of MonInputs and RelayInputs.
Spec == Init /\ [][Next]_vars

\* a step of the main control flow other than the arrival of an interrupt
MainStep ==
    StartN2M \/ StartM2N \/ ExceptLogFile \/ ExceptLogStrm \/ CloseMaser \/ CloseNrcan \/ Exit

\* a step of a relay loop other than a failure of its serial link
LoopStep(t) ==
    \/ Read(t) \/ Write(t) \/ DecodeByte(t) \/ AppendByte(t) \/ Check(t)
    \/ Acquire(t) \/ LogFile(t) \/ LogStrm(t) \/ Release(t) \/ Reset(t)
    \/ (t = "m2n" /\ (StripLine \/ Detect \/ WmOpen \/ WmWrite \/ WmRename))

\* Spec under the scheduling the interpreter gives: every thread that can
\* take a step eventually takes one.  Nothing obliges an interrupt or a
\* serial failure to happen.
FairSpec ==
    Spec /\ WF_vars(MainStep) /\ \A t \in Loops : WF_vars(LoopStep(t))

\* Spec with the main control flow alone sure to run: the workers may be
\* starved.
MainFairSpec == Spec /\ WF_vars(MainStep)

(***************************************************************************)
(* One relay loop alone, on every short byte sequence and on lines of the  *)
(* maser's formats.                                                        *)
(***************************************************************************)
\* bytes of the NRCan link: a plain character, the two sentinels and a byte
\* that is no character
NrcanBytes == {"A", "F", "D", BadByte}

\* bytes of the maser link: a plain character, CR, LF and a byte that is no
\* character
MaserBytes == {"x", "\r", "\n", BadByte}

\* the spec's worked examples of the two framing policies
SentinelExample == <<"A","B","1","2","F","C","D","3","D">>
NewlineExample == <<"M","a","s","e","r"," ","d","a","t","a","\r","\n">>

Spaces(n) == [i \in 1..n |-> " "]

\* text at the right, or at the left, of a column of the given width
RJust(text, width) ==
    IF Len(text) >= width THEN SubSeq(text, 1, width)
    ELSE Spaces(width - Len(text)) \o text

LJust(text, width) ==
    IF Len(text) >= width THEN SubSeq(text, 1, width)
    ELSE text \o Spaces(width - Len(text))

\* what a numeric column may hold: numbers, and text that is no number
Cores == << <<"1","2">>, <<"x">>, <<>>, <<"-","3">>, <<"1",".","5">>, <<"0","1">> >>

\* the content of column c in filling v
Core(v, c) == Cores[((v + c) % Len(Cores)) + 1]

Field(v, c, width) == RJust(Core(v, c), width)

\* what the time columns may hold: a time, day 366 of a year of 365 days,
\* a second that is no second, and no time at all
Times == << <<"2","3"," ","0","4","5"," ","1","2"," ","3","0"," ","5","9">>, <<"2","3"," ","3","6","6"," ","0","0"," ","0","0"," ","0","0">>, <<"2","3"," ","0","4","5"," ","1","2"," ","3","0"," ","6","0">>, <<"2","3"," ","0","4","5"," ","1","2"," ","3","x"," ","5","9">> >>

\* what the name column may hold: the unit's name, or text that holds the key
\* of an analog set or of status line 2
Names == << <<"N","R","-","M","A","S","E","R">>, <<"V","O","L","T","A","G","E","S">>, <<"D","G","S","W"," "," "," "," ">> >>

Pick(table, v) == table[((v - 1) % Len(table)) + 1]

\* a status line 1 of the maser, its columns filled as filling v says
Status1Frame(v) ==
    Pick(Names, v) \o <<" ">> \o Pick(Times, v) \o <<" ">>
      \o <<"A","H","M">> \o Field(v, 1, 2) \o <<"H","-">> \o Field(v, 2, 6) \o <<"L">>
      \o Field(v, 3, 2) \o Field(v, 4, 2) \o Field(v, 5, 2) \o <<" ">>
      \o Field(v, 6, 2) \o <<" ">> \o Field(v, 7, 2) \o <<" ">>
      \o Field(v, 8, 6) \o <<" ">> \o SYN \o <<" ","A"," ">>
      \o Field(v, 9, 4) \o <<" ">> \o Field(v, 10, 4) \o <<" ">> \o Field(v, 11, 3)

\* what the status word may hold
Words == << <<"0","1","0","0","1","1","0","0","0","1","1","1">>, <<" "," "," "," "," "," ","1","0","1"," "," "," ">>, <<"0","1","0","0","1","1","0","0","x","1","1","1">>, <<"0","b","1","0","1","1"," "," "," "," "," "," ">> >>

\* a status line 2 of the maser
Status2Frame(v) ==
    Field(v, 1, 3) \o <<" "," ">> \o Field(v, 2, 4) \o <<" ">> \o DGSW \o <<" ">>
      \o Pick(Words, v) \o Spaces(8)
      \o Field(v, 3, 2) \o <<" ">> \o Field(v, 4, 2) \o <<" ">>
      \o Field(v, 5, 2) \o <<" ">> \o Field(v, 6, 2)

\* the columns of channel i (from 0) of an analog line and the two columns
\* between it and the next: the value at the right or at the left
Cell(v, i) ==
    (IF (v + i) % 2 = 0 THEN RJust(Core(v, i), 6) ELSE LJust(Core(v, i), 6)) \o <<" ","-">>

RECURSIVE Cells(_, _, _)
Cells(v, i, n) == IF i = n THEN <<>> ELSE Cell(v, i) \o Cells(v, i + 1, n)

\* an analog line of the maser for set k, with eight channels' columns
AnalogFrame(k, v) == analog_chan_sets[k].id \o Spaces(7) \o Cells(v, 0, 8)

\* a line cut short at n characters
Cut(frame, n) == SubSeq(frame, 1, Min(n, Len(frame)))

\* the lengths the lines are cut at: status line 1 from before SYN on,
\* status line 2 from the end of DGSW on, analog lines at the key and inside
\* and after every channel
Status1Cuts == 59..78
Status2Cuts == 14..46
AnalogCuts == {8} \cup {15 + 8 * i + d : i \in 0..7, d \in {3, 8}}

\* the pieces the frames fed to the classifier are made of
Pieces == { SYN, DGSW, <<"S">>, <<"Y","N">>, analog_chan_sets[1].id, analog_chan_sets[7].id }

\* the maser lines fed to the decoder, each with its line end
DecodeLines ==
    {Append(f, "\n") :
       f \in {Cut(Status1Frame(v), n) : v \in 1..MaxVariants, n \in Status1Cuts}
         \cup {Cut(Status2Frame(v), n) : v \in 1..MaxVariants, n \in Status2Cuts}
         \cup {Cut(AnalogFrame(k, v), n) :
                 k \in 1..Len(analog_chan_sets), v \in 1..MaxVariants, n \in AnalogCuts}
         \cup (Streams(Pieces, MaxPieces) \ {<<>>})}

NrcanSeqs == AllSeqs(NrcanBytes, MaxBytes) \cup {SentinelExample}

MaserSeqs == AllSeqs(MaserBytes, MaxBytes) \cup {NewlineExample} \cup DecodeLines

InitLoop ==
    \/ \E a \in NrcanSeqs : InitWith("mon", [nrcan |-> a, maser |-> <<>>])
    \/ \E b \in MaserSeqs : InitWith("mon", [nrcan |-> <<>>, maser |-> b])
    \/ \E a \in NrcanSeqs : InitWith("relay", [nrcan |-> a, maser |-> <<>>])

NextLoop ==
    \/ StartN2M \/ StartM2N
    \/ \E t \in Loops :
          \/ Read(t) \/ Write(t) \/ DecodeByte(t) \/ AppendByte(t) \/ Check(t)
          \/ Acquire(t) \/ LogFile(t) \/ LogStrm(t) \/ Release(t) \/ Reset(t)
    \/ StripLine \/ Detect \/ WmOpen \/ WmWrite \/ WmRename

\* One link carries traffic; no interrupt, no serial failure.
SpecLoop == InitLoop /\ [][NextLoop]_vars

(***************************************************************************)
(* The publisher and a reader of the published files.                      *)
(***************************************************************************)
\* two lines of the maser that publish different text to the same group
PublishFrames == { <<"1","2"," ","D","G","S","W","\n">>, <<"D","G","S","W","\n">> }

InitPublish ==
    \E b \in Streams(PublishFrames, MaxPublishes) :
       InitWith("mon", [nrcan |-> <<>>, maser |-> b])

\* the groups that have been published to
Groups == {wm_calls[i].file_id : i \in 1..Len(wm_calls)}

NextPublish ==
    \/ StartN2M \/ StartM2N
    \/ \E t \in Workers :
          \/ Read(t) \/ Write(t) \/ DecodeByte(t) \/ AppendByte(t) \/ Check(t)
          \/ Acquire(t) \/ LogFile(t) \/ LogStrm(t) \/ Release(t) \/ Reset(t)
    \/ StripLine \/ Detect \/ WmOpen \/ WmWrite \/ WmRename
    \/ \E f \in Groups : ReadFinal(f)

\* The maser worker publishes; a reader reads a final path at any moment.
SpecPublish == InitPublish /\ [][NextPublish]_vars

(***************************************************************************)
(* The two workers side by side, on every short byte sequence on each      *)
(* link and on the frames that get published.                              *)
(***************************************************************************)
InitPair ==
    \E a \in AllSeqs({"F", "D", BadByte}, MaxPairBytes) :
       \E b \in AllSeqs({"x", "\n", BadByte}, MaxPairBytes) \cup PublishFrames :
          InitWith("mon", [nrcan |-> a, maser |-> b])

NextPair ==
    \/ StartN2M \/ StartM2N
    \/ \E t \in Workers :
          \/ Read(t) \/ Write(t) \/ DecodeByte(t) \/ AppendByte(t) \/ Check(t)
          \/ Acquire(t) \/ LogFile(t) \/ LogStrm(t) \/ Release(t) \/ Reset(t)
    \/ StripLine \/ Detect \/ WmOpen \/ WmWrite \/ WmRename

\* Both links carry traffic; no interrupt, no serial failure.
SpecPair == InitPair /\ [][NextPair]_vars

\* SpecPair under fair scheduling of the threads
FairPair ==
    SpecPair /\ WF_vars(MainStep) /\ \A t \in Workers : WF_vars(LoopStep(t))

(***************************************************************************)
(* Properties                                                              *)
(***************************************************************************)
IsPrefix(a, b) == Len(a) <= Len(b) /\ SubSeq(b, 1, Len(a)) = a

LastOf(S) == CHOOSE i \in S : \A j \in S : j <= i

RECURSIVE Flatten(_)
Flatten(seqs) == IF seqs = <<>> THEN <<>> ELSE Head(seqs) \o Flatten(Tail(seqs))

\* the file a group's final path holds after the given calls have completed
Published(f, calls) ==
    LET idx == {i \in 1..Len(calls) : calls[i].file_id = f}
    IN  IF idx = {} THEN NoFile ELSE File(calls[LastOf(idx)].data_string)

\* the write_metrics calls that have returned
Completed ==
    IF wm = NoArgs THEN wm_calls ELSE SubSeq(wm_calls, 1, Len(wm_calls) - 1)

\* C1 (atomic publication): between any two steps of the publisher, the
\* final path of every group holds exactly the complete text of the last
\* publish of that group that has finished (no file before the first), and
\* whatever a reader saw at a final path is the complete text of the
\* publish before the one that was running then or of that one: never an
\* empty or a partly written file.
C1_AtomicPublication ==
    /\ \A f \in FileIds : files[final_path(f)] = Published(f, Completed)
    /\ seen.file_id # <<>> =>
         /\ seen.file \in {Published(seen.file_id, SubSeq(wm_calls, 1, k)) :
                             k \in {Max(seen.calls - 1, 0), seen.calls}}
         /\ seen.file.exists => seen.file.data # <<>>

\* a reader read the final path of a group while the second publish to it
\* was writing different text, and saw the whole text of the first
C1_ReadDuringSecondPublish ==
    /\ seen.during = "wm_write" /\ seen.calls = 2
    /\ Len(wm_calls) >= 2
    /\ wm_calls[1].file_id = seen.file_id /\ wm_calls[2].file_id = seen.file_id
    /\ wm_calls[1].data_string # wm_calls[2].data_string
    /\ seen.file = File(wm_calls[1].data_string)

\* the positions of a loop at which its last byte read has been written on
Forwarded(t) ==
    \/ pc[t] \in {"read", "decode", "append", "check", "strip", "lock", "log_file",
                  "log_strm", "unlock", "detect", "wm_open", "wm_write",
                  "wm_rename", "reset"}
    \/ pc[t] = "dead" /\ raised[t].at \notin {"read", "write"}

\* C2 (forwarding integrity and order): for every relay loop, what has been
\* written to its destination is a prefix of what has been read from its
\* source and lacks at most one byte; and once the loop is past its write
\* (decoding, appending, logging, publishing, or dead of a byte that does
\* not decode) the two are equal.
C2_ForwardingIntegrity ==
    \A t \in Loops :
       pc[t] \notin {"off", "unstarted"} =>
          /\ IsPrefix(tx[Dst(t)], rd[Src(t)])
          /\ Len(rd[Src(t)]) - Len(tx[Dst(t)]) <= 1
          /\ Forwarded(t) => tx[Dst(t)] = rd[Src(t)]

\* a worker died of a byte that does not decode, and that byte had been
\* written on
C2_UndecodableByteForwarded ==
    /\ pc["m2n"] = "dead" /\ raised["m2n"].exc = "UnicodeDecodeError"
    /\ Len(rd["maser"]) > 1
    /\ rd["maser"][Len(rd["maser"])] = BadByte
    /\ tx["nrcan"] = rd["maser"]

\* the positions of a worker inside its frame log write
LogSection == {"log_file", "log_strm", "unlock"}

\* the records of the workers' frames in a log
FrameRecords(log) == SelectSeq(log, LAMBDA r : r.prefix \in {"NRCan: ", "Maser: "})

\* C3 (log mutual exclusion): the two workers are never both inside their
\* frame log write, a worker inside it holds the lock, and the frame records
\* reach the two handlers in the same order, a record being written by both
\* before the next one is begun.
C3_LogMutualExclusion ==
    /\ ~(pc["n2m"] \in LogSection /\ pc["m2n"] \in LogSection)
    /\ \A t \in Workers : pc[t] \in LogSection => lock = t
    /\ IsPrefix(FrameRecords(logstrm), FrameRecords(logfile))
    /\ Len(FrameRecords(logfile)) - Len(FrameRecords(logstrm)) <= 1

\* one worker is inside its log write while the other waits to log a frame
C3_OneLogsOtherWaits ==
    /\ pc["n2m"] = "log_strm" /\ pc["m2n"] = "lock"
    /\ lock = "n2m"

\* the outcome the priority order gives a frame
Classify(frame) ==
    IF Contains(frame, <<"S","Y","N">>)
    THEN [call |-> "parse_status_line1", set |-> 0]
    ELSE IF Contains(frame, <<"D","G","S","W">>)
    THEN [call |-> "parse_status_line2", set |-> 0]
    ELSE IF \E k \in 1..Len(analog_chan_sets) : Contains(frame, analog_chan_sets[k].id)
    THEN [call |-> "parse_analog_chan_line",
          set |-> CHOOSE k \in 1..Len(analog_chan_sets) :
                    /\ Contains(frame, analog_chan_sets[k].id)
                    /\ \A j \in 1..(k - 1) : ~Contains(frame, analog_chan_sets[j].id)]
    ELSE [call |-> "none", set |-> 0]

\* the worker is past the classification of its frame
Classified ==
    \/ pc["m2n"] \in {"wm_open", "wm_write", "wm_rename", "reset"}
    \/ pc["m2n"] = "dead" /\ raised["m2n"].at = "detect"

\* C4 (classification priority): every frame is dispatched to the one
\* outcome the priority order gives it: status line 1 when it holds SYN,
\* else status line 2 when it holds DGSW, else the analog line of the first
\* set of the catalog whose key it holds, else none.
C4_ClassificationPriority ==
    Classified => called = Classify(line["m2n"])

\* a frame that holds SYN and the key of an analog set is decoded as status
\* line 1
C4_SynBeforeAnalogKey ==
    /\ pc["m2n"] = "wm_open"
    /\ Contains(line["m2n"], <<"V","O","L","T","A","G","E","S">>)
    /\ called.call = "parse_status_line1"

\* text that is no number: blank (or empty, the line being too short), or
\* with a letter in it
Unparsable(text) ==
    \/ \A i \in 1..Len(text) : text[i] \in Whitespace
    \/ \E i \in 1..Len(text) : text[i] = "x"

\* the numeric columns of the frame being published
NumericCols ==
    IF called.call = "parse_status_line1"
    THEN [n \in 1..Len(Status1Cols) |->
            [numeric |-> Status1Cols[n].kind \in {"int", "time"},
             lo |-> Status1Cols[n].lo, hi |-> Status1Cols[n].hi]]
    ELSE IF called.call = "parse_status_line2"
    THEN [n \in 1..Len(Status2Cols) |->
            [numeric |-> TRUE, lo |-> Status2Cols[n].lo, hi |-> Status2Cols[n].hi]]
    ELSE [n \in 1..Len(analog_chan_sets[called.set].chans) |->
            [numeric |-> TRUE,
             lo |-> ChanRange(n - 1, Normalize(analog_chan_sets[called.set].chans[n]))[1],
             hi |-> ChanRange(n - 1, Normalize(analog_chan_sets[called.set].chans[n]))[2]]]

\* every numeric column of a decoded frame gives a sample, and the sample of
\* a column whose text is no number has the value -1
C5_SentinelWhenDecoded ==
    pc["m2n"] \in {"wm_open", "wm_write", "wm_rename"} =>
       /\ Len(wm.data_string) = Len(NumericCols)
       /\ \A n \in 1..Len(NumericCols) :
             (/\ NumericCols[n].numeric
              /\ Unparsable(Slice(line["m2n"], NumericCols[n].lo, NumericCols[n].hi)))
             => wm.data_string[n].value = IntVal(-1)

\* C5 (numeric parse failure yields the sentinel): the decode of a
\* classified frame raises no exception, however short the frame, and every
\* numeric column gives a sample, with the value -1 when its text is no
\* number.
C5_ParseFailureYieldsSentinel ==
    /\ raised["m2n"].at # "detect"
    /\ C5_SentinelWhenDecoded

\* the characters that end a frame of each loop
Terminators(t) == IF t = "m2n" THEN {"\n"} ELSE {"F", "D"}

\* the successive maximal segments of s that end at a character of terms
\* (acc: the segment begun)
RECURSIVE Segments(_, _, _)
Segments(s, terms, acc) ==
    IF s = <<>> THEN <<>>
    ELSE IF Head(s) \in terms
    THEN <<Append(acc, Head(s))>> \o Segments(Tail(s), terms, <<>>)
    ELSE Segments(Tail(s), terms, Append(acc, Head(s)))

\* the frames a loop has emitted: the texts of its log records
Emitted(t) ==
    LET recs == SelectSeq(logfile, LAMBDA r : r.prefix = LogPrefix(t))
    IN  [i \in 1..Len(recs) |-> recs[i].text]

\* the segments of the input read so far whose frames are due: all the
\* complete ones, less the last while the loop is between reading its
\* terminator and logging it
Due(t, terms) ==
    LET input == rd[Src(t)]
        segs  == Segments(input, terms, <<>>)
    IN  IF /\ pc[t] \in {"write", "decode", "append", "check", "strip", "lock", "log_file"}
           /\ input # <<>> /\ input[Len(input)] \in terms
        THEN SubSeq(segs, 1, Len(segs) - 1) ELSE segs

\* the buffer of a loop, empty once its frame is emitted; and the byte read
\* that is not in the buffer yet
Buffer(t) == IF pc[t] \in {"log_strm", "unlock", "reset"} THEN <<>> ELSE line[t]
InFlight(t) ==
    IF pc[t] \in {"write", "decode", "append", "dead"} THEN <<raw_byte[t]>> ELSE <<>>

\* C6 (sentinel framing), amended: the frames the NRCan-to-maser framer (of
\* either script) has emitted are exactly the successive maximal segments of
\* its input that end at F or D, each with its terminator last and no other
\* F or D; the emitted frames followed by the buffer (and the byte just
\* read) are the input so far.  (AB12F then CD3D give the three frames
\* AB12F, CD and 3D.)
C6_SentinelFraming ==
    \A t \in {"n2m", "req"} :
       pc[t] \notin {"off", "unstarted"} =>
          /\ Emitted(t) = Due(t, {"F", "D"})
          /\ \A i \in 1..Len(Emitted(t)) :
                /\ Emitted(t)[i] # <<>>
                /\ \A j \in 1..Len(Emitted(t)[i]) :
                      (Emitted(t)[i][j] \in {"F", "D"}) <=> (j = Len(Emitted(t)[i]))
          /\ Flatten(Emitted(t)) \o Buffer(t) \o InFlight(t) = rd["nrcan"]

\* C6 as stated: the above, and AB12F then CD3D give exactly the two frames
\* AB12F and CD3D.
C6_WithWorkedExample ==
    /\ C6_SentinelFraming
    /\ \A t \in {"n2m", "req"} :
          (rd["nrcan"] = SentinelExample /\ pc[t] = "read") =>
             Emitted(t) = << <<"A","B","1","2","F">>, <<"C","D","3","D">> >>

\* AB12F then CD3D have been read and framed: three frames, the D of CD3D
\* ending the second
C6_ExampleGivesThreeFrames ==
    /\ rd["nrcan"] = <<"A","B","1","2","F","C","D","3","D">>
    /\ pc["n2m"] = "read"
    /\ Emitted("n2m") = << <<"A","B","1","2","F">>, <<"C","D">>, <<"3","D">> >>
    /\ line["n2m"] = <<>>

\* the frames of the maser-to-NRCan framer, were each segment stripped by
\* strip
NewlineFrames(strip(_, _)) ==
    [i \in 1..Len(Due("m2n", {"\n"})) |-> strip(Due("m2n", {"\n"})[i], {"\r", "\n"})]

\* C7 as stated (newline framing): one frame per line feed, equal to the
\* characters since the previous line feed with only the CR and LF at its
\* end removed, a CR at its start being kept.
C7_TrailingOnly ==
    pc["m2n"] \notin {"off", "unstarted"} => Emitted("m2n") = NewlineFrames(RStrip)

\* C7 (newline framing), amended: one frame per line feed, equal to the
\* characters since the previous line feed with the CR and LF characters at
\* its start and at its end removed; the characters between are kept.
C7_NewlineFraming ==
    pc["m2n"] \notin {"off", "unstarted"} => Emitted("m2n") = NewlineFrames(Strip)

\* a line that starts with CR is emitted without it
C7_LeadingCRRemoved ==
    /\ rd["maser"] = <<"\r","x","\n">>
    /\ pc["m2n"] = "read"
    /\ Emitted("m2n") = << <<"x">> >>

\* the names of the samples of the set " MISC   ", as the catalog spells its
\* channels
MiscNames == << <<"m","i","s","c","_","p","k","_","p","h">>, <<"m","i","s","c","_","v","c","o">>, <<"m","i","s","c","_","i","f">>, <<"m","i","s","c","_","p","r","e","s","s">>, <<"m","i","s","c","_","1","m","h","z">>,
                <<"m","i","s","c","_","g","a","i","n">>, <<"m","i","s","c","_","o","f","f","s","e","t">>, <<"m","i","s","c","_","r","a","w","_","r","e","f">> >>

\* the columns stated for the channel at index i (from 0)
ClaimedRange(i, channel) ==
    IF channel = <<"i","f">> THEN <<30, 37>> ELSE <<15 + 8 * i, 15 + 8 * i + 6>>

\* C8 (analog decode offsets): an analog line gives one sample per channel
\* of its set, in catalog order, named prefix_group_channel with group and
\* channel stripped, spaces made underscores and lower-cased, valued by the
\* float in columns [15+8i, 15+8i+6) for the channel at index i, but in
\* columns [30,37) for the channel named "if".
C8_AnalogOffsets ==
    (pc["m2n"] \in {"wm_open", "wm_write", "wm_rename"}
       /\ called.call = "parse_analog_chan_line") =>
      LET set   == analog_chan_sets[called.set]
          group == Normalize(set.id)
      IN  /\ wm.file_id = group
          /\ Len(wm.data_string) = Len(set.chans)
          /\ \A n \in 1..Len(set.chans) :
                LET channel == Normalize(set.chans[n])
                    range   == ClaimedRange(n - 1, channel)
                IN  /\ wm.data_string[n].name =
                          <<"maser", "_">> \o group \o <<"_">> \o channel
                    /\ wm.data_string[n].labels = <<>>
                    /\ wm.data_string[n].value =
                          str2float(Slice(line["m2n"], range[1], range[2]))
          /\ set.id = <<" ","M","I","S","C"," "," "," ">> =>
                \A n \in 1..Len(MiscNames) :
                   wm.data_string[n].name = <<"maser", "_">> \o MiscNames[n]

\* a whole line of the set " MISC   " whose channel "if" gets, from columns
\* [30,37), a number other than the one in the columns of its index
C8_IfTakesWiderColumns ==
    /\ pc["m2n"] = "wm_rename"
    /\ called.call = "parse_analog_chan_line"
    /\ analog_chan_sets[called.set].id = <<" ","M","I","S","C"," "," "," ">>
    /\ Len(line["m2n"]) = 79
    /\ wm.data_string[3].value = str2float(Slice(line["m2n"], 30, 37))
    /\ wm.data_string[3].value # str2float(Slice(line["m2n"], 31, 37))
    /\ wm.data_string[3].value # IntVal(-1)

\* C9 (fatal worker errors stop the process): once a worker has died, the
\* process eventually exits.
C9_DeadWorkerStopsProcess ==
    (\E t \in Workers : pc[t] = "dead") ~> Exited

\* C10 (interrupt shutdown): once a keyboard interrupt has reached the main
\* control flow, whatever the workers are doing, both ports get closed and
\* the process exits; and after the exit nothing more is read or written.
C10_InterruptShutdown ==
    /\ (pc[MainThread] = "except")
          ~> (Exited /\ ~is_open["maser"] /\ ~is_open["nrcan"])
    /\ [][Exited => (tx' = tx /\ rd' = rd)]_vars

\* the process has exited on an interrupt that came while a worker held the
\* log lock and the other was blocked in its read
C10_ExitedWhileLockHeld ==
    /\ pc["main"] = "exited"
    /\ ~is_open["maser"] /\ ~is_open["nrcan"]
    /\ lock = "n2m"
    /\ pc["m2n"] = "read" /\ rx["maser"] = <<>>

\* C11 (publish idempotence): whenever no publish is in progress no
\* temporary file exists; and when the last publishes of a group were given
\* the same text, once or several times over, the group's final file holds
\* exactly that text, as it did after the first of them.
C11_PublishIdempotent ==
    wm = NoArgs =>
       /\ \A f \in FileIds : files[temporary_path(f)] = NoFile
       /\ \A i \in 1..Len(wm_calls) :
             (\A j \in i..Len(wm_calls) : wm_calls[j] = wm_calls[i])
                => files[final_path(wm_calls[i].file_id)] = File(wm_calls[i].data_string)

\* the same line has been published twice in a row and the second publish
\* has finished
C11_PublishedTwice ==
    /\ Len(wm_calls) = 2 /\ wm_calls[1] = wm_calls[2]
    /\ wm = NoArgs /\ pc["m2n"] = "reset"
    /\ files[final_path(wm_calls[2].file_id)] = File(wm_calls[1].data_string)
    /\ files[temporary_path(wm_calls[2].file_id)] = NoFile

\* the number of samples the parser of a classified frame makes
FieldCount(class) ==
    CASE class.call = "parse_status_line1" -> 21
      [] class.call = "parse_status_line2" -> 7
      [] class.call = "parse_analog_chan_line" -> Len(analog_chan_sets[class.set].chans)
      [] OTHER -> 0

\* C12 (decode of a classified frame never fails): the decode of a frame
\* raises nothing, whatever the frame's length; the call of write_metrics it
\* ends in carries one sample per field; and once the worker is back at the
\* end of its loop body the frame's group has been published exactly once.
C12_DecodeNeverFails ==
    /\ raised["m2n"].at # "detect"
    /\ pc["m2n"] \in {"wm_open", "wm_write", "wm_rename"} =>
          Len(wm.data_string) = FieldCount(Classify(line["m2n"]))
    /\ (pc["m2n"] = "reset" /\ Classify(line["m2n"]).call # "none") =>
          /\ Len(wm_calls) = Len(Emitted("m2n"))
          /\ files[final_path(wm_calls[Len(wm_calls)].file_id)]
                = File(wm_calls[Len(wm_calls)].data_string)

\* the group a classified frame belongs to
GroupOf(class) ==
    CASE class.call = "parse_status_line1" -> <<"status1">>
      [] class.call = "parse_status_line2" -> <<"status2">>
      [] class.call = "parse_analog_chan_line" -> Normalize(analog_chan_sets[class.set].id)
      [] OTHER -> <<>>

\* C13 (frame effect of dispatch): a step changes the file at a path of the
\* metrics directory only while the maser worker processes a frame, and
\* then only at the final path (or the temporary path) of the group the
\* frame is classified into; the step that dispatches an unrecognized frame
\* changes no file, raises nothing and takes the worker on to the end of its
\* loop body.
C13_FrameEffect ==
    [][/\ \A f \in FileIds :
             (\/ files'[final_path(f)] # files[final_path(f)]
              \/ files'[temporary_path(f)] # files[temporary_path(f)])
                => /\ pc["m2n"] \in {"wm_open", "wm_write", "wm_rename"}
                   /\ f = GroupOf(Classify(line["m2n"]))
       /\ (pc["m2n"] = "detect" /\ Classify(line["m2n"]).call = "none"
             /\ pc'["m2n"] # pc["m2n"])
                => /\ pc'["m2n"] = "reset"
                   /\ files' = files /\ raised' = raised /\ wm_calls' = wm_calls
      ]_vars

\* a status line 2 has been processed: its group's file is there and no
\* other group's
C13_OnlyStatus2Published ==
    /\ pc["m2n"] = "reset"
    /\ Classify(line["m2n"]).call = "parse_status_line2"
    /\ files[final_path(<<"status2">>)].exists
    /\ \A f \in FileIds \ {<<"status2">>} : ~files[final_path(f)].exists
    /\ \A f \in FileIds : ~files[temporary_path(f)].exists

\* a worker has ended on a byte that does not decode
DecodeDead(t) == raised[t].exc = "UnicodeDecodeError"

Other(t) == IF t = "n2m" THEN "m2n" ELSE "n2m"

\* C14 (byte decode failure is fatal for that worker only): a worker that
\* has read a byte that does not decode ended at the decoding, not holding
\* the lock, having logged the frames completed before and nothing of the
\* frame begun; from then on it reads, writes, logs and publishes nothing;
\* and the other worker is not held up: when it wants the lock the lock is
\* free.
C14_DecodeFailureFatalToOneWorker ==
    /\ [](\A t \in Workers :
            DecodeDead(t) =>
               /\ pc[t] = "dead" /\ raised[t].at = "decode"
               /\ lock # t
               /\ pc[Other(t)] = "lock" => lock = "free"
               /\ Len(Emitted(t)) = Len(Segments(rd[Src(t)], Terminators(t), <<>>))
               /\ t = "m2n" => wm = NoArgs)
    /\ [][\A t \in Workers :
            DecodeDead(t) =>
               /\ pc'[t] = "dead"
               /\ rd'[Src(t)] = rd[Src(t)] /\ rx'[Src(t)] = rx[Src(t)]
               /\ tx'[Dst(t)] = tx[Dst(t)]
               /\ line'[t] = line[t]
               /\ Emitted(t)' = Emitted(t)
               /\ t = "m2n" => (files' = files /\ wm_calls' = wm_calls)
         ]_vars

\* C14 witness: the maser-to-NRCan worker ended on an undecodable byte with
\* a frame begun, which is in no log record, and the other worker, having
\* read its whole input since, is logging its second frame.
C14_OtherWorkerLogsAfterDeath ==
    /\ DecodeDead("m2n") /\ line["m2n"] = <<"x">> /\ rd["maser"] = <<"x", BadByte>>
    /\ Emitted("m2n") = <<>>
    /\ pc["n2m"] = "log_strm" /\ lock = "n2m"
    /\ rd["nrcan"] = <<"F", "D">> /\ tx["maser"] = rd["nrcan"]
    /\ Emitted("n2m") = <<<<"F">>, <<"D">>>>

\* a worker has nothing left to do: it has ended, or it is blocked in its
\* read with every byte that arrived consumed
Idle(t) == pc[t] = "dead" \/ (pc[t] = "read" /\ rx[Src(t)] = <<>>)

\* C15 (no blocking while holding the lock): a worker holds the lock exactly
\* while it is inside its log write, so never while it reads, forwards or
\* publishes; a lock taken is released, by its holder, for good in the end;
\* and under fair scheduling, whether
\* the other link is stalled or the other worker is publishing, a worker that
\* wants the lock gets it and every worker consumes every byte that arrives
\* unless it has ended.
C15_LockHeldOnlyToLog ==
    /\ [](/\ lock \in {"free"} \cup Workers
          /\ \A t \in Workers : (lock = t) <=> (pc[t] \in LogSection))
    /\ [][\A t \in Workers : lock = t => (lock' = t \/ (lock' = "free" /\ pc'[t] # pc[t]))]_vars
    /\ \A t \in Workers : (pc[t] = "lock") ~> (pc[t] = "log_file")
    /\ <>[](lock = "free" /\ \A t \in Workers : Idle(t))

\* C15 witness: the NRCan-to-maser worker holds the lock to log a frame
\* while the other worker is in the middle of a publish.
C15_LogsWhileOtherPublishes ==
    /\ pc["m2n"] = "wm_write" /\ files[temporary_path(wm.file_id)].exists
    /\ pc["n2m"] = "log_strm" /\ lock = "n2m"

\* the positions of the maser-to-NRCan worker inside write_metrics
Publishing == {"wm_open", "wm_write", "wm_rename"}

\* the temporary paths that exist
Temporaries == {f \in FileIds : files[temporary_path(f)].exists}

\* the write_metrics call a frame leads to
PublishOf(frame) ==
    LET d == detect_metric_line(frame)
    IN  [file_id |-> d.out.file_id, data_string |-> d.out.data_string]

\* the frames the maser-to-NRCan worker has logged that lead to a publish
Publishable ==
    SelectSeq(Emitted("m2n"),
              LAMBDA frame : LET d == detect_metric_line(frame)
                             IN  d.call # "none" /\ d.out.raised = "none")

\* C16 (single publisher, sequential publishes): a write_metrics call is in
\* progress exactly while the maser-to-NRCan worker is inside it, so the
\* worker reads no byte meanwhile; at most one temporary path exists and it
\* is that of the call in progress; only steps of that worker inside
\* write_metrics change a file, so no frame of the other direction does; and
\* the calls made are, in order, those of the frames logged, the last of
\* which may not be dispatched yet.
C16_SinglePublisher ==
    /\ [](/\ (wm # NoArgs) <=> (pc["m2n"] \in Publishing)
          /\ Temporaries \subseteq (IF wm = NoArgs THEN {} ELSE {wm.file_id})
          /\ Len(wm_calls) \in {Len(Publishable) - 1, Len(Publishable)}
          /\ \A i \in 1..Len(wm_calls) : wm_calls[i] = PublishOf(Publishable[i]))
    /\ [][/\ files' # files =>
               /\ pc["m2n"] \in Publishing
               /\ pc'["n2m"] = pc["n2m"] /\ pc'["main"] = pc["main"]
          /\ rd'["maser"] # rd["maser"] => (wm = NoArgs /\ Temporaries = {})
          /\ Len(wm_calls') > Len(wm_calls) => (wm = NoArgs /\ Temporaries = {})
         ]_vars

\* C16 witness: two frames in a row were published, with different texts,
\* the second publish begun after the first had ended and now ended too.
C16_TwoPublishesInOrder ==
    /\ Len(wm_calls) = 2 /\ wm_calls[1] # wm_calls[2]
    /\ wm_calls[1] = PublishOf(Emitted("m2n")[1])
    /\ wm_calls[2] = PublishOf(Emitted("m2n")[2])
    /\ wm = NoArgs /\ pc["m2n"] = "reset"
    /\ files[final_path(wm_calls[2].file_id)] = File(wm_calls[2].data_string)

\* the last byte a loop has read
LastRead(t) == rd[Src(t)][Len(rd[Src(t)])]

\* C17 (framer buffer invariant): a buffer is changed only by steps of its
\* own loop; a loop about to read has no terminator of its policy in its
\* buffer, and an empty buffer when the byte before was a terminator; a log
\* record of a frame is written only while the byte just consumed is a
\* terminator; and a loop that has emitted a frame goes back to its read
\* with the buffer empty.
C17_FramerBuffer ==
    /\ [](\A t \in Loops :
            pc[t] = "read" =>
               /\ \A i \in 1..Len(line[t]) : line[t][i] \notin Terminators(t)
               /\ (rd[Src(t)] # <<>> /\ LastRead(t) \in Terminators(t))
                     => line[t] = <<>>)
    /\ [][\A t \in Loops :
            /\ line'[t] # line[t] =>
                  /\ pc[t] \in {"append", "strip", "reset"} /\ pc'[t] # pc[t]
                  /\ \A u \in Loops \ {t} : line'[u] = line[u] /\ pc'[u] = pc[u]
            /\ (/\ Len(Emitted(t)') > Len(Emitted(t))
                /\ logfile' # Append(logfile, LogRecord("", InterruptMessage(prog)))) =>
                  /\ byte[t] \in Terminators(t) /\ LastRead(t) = byte[t]
                  /\ pc[t] = "log_file"
            /\ (pc[t] \in {"log_strm", "unlock", "detect", "reset"} \cup Publishing
                   /\ pc'[t] = "read") => line'[t] = <<>>
         ]_vars

\* C17 witness: the maser-to-NRCan worker has emitted a frame and is about
\* to read with an empty buffer, while the other worker is about to read
\* with the start of a frame in its own buffer.
C17_BuffersBeforeRead ==
    /\ pc["m2n"] = "read" /\ Len(Emitted("m2n")) = 1 /\ line["m2n"] = <<>>
    /\ pc["n2m"] = "read" /\ line["n2m"] = <<"A">> /\ Emitted("n2m") = <<>>

\* the frames a loop has completed: the segments of the bytes it has read
\* that end at a terminator, as the loop emits them
Frames(t) ==
    LET segs == Segments(rd[Src(t)], Terminators(t), <<>>)
    IN  [i \in 1..Len(segs) |->
           IF t = "m2n" THEN Strip(segs[i], {"\r", "\n"}) ELSE segs[i]]

\* C18 (every completed frame logged once, in order): the log records of a
\* direction are always its completed frames in order, each once, the last
\* being perhaps not written yet; under fair scheduling every completed
\* frame does get written; and a publish begins only after the record of
\* its frame is in the log.
C18_LoggedOnceInOrder ==
    /\ [](\A t \in Workers :
            /\ Len(Emitted(t)) \in {Len(Frames(t)) - 1, Len(Frames(t))}
            /\ \A i \in 1..Len(Emitted(t)) : Emitted(t)[i] = Frames(t)[i])
    /\ <>[](\A t \in Workers : Emitted(t) = Frames(t))
    /\ [][Len(wm_calls') > Len(wm_calls) =>
            /\ Emitted("m2n") = Frames("m2n")
            /\ wm' = PublishOf(Emitted("m2n")[Len(Emitted("m2n"))])
            /\ SelectSeq(logstrm, LAMBDA r : r.prefix = LogPrefix("m2n"))
                  = SelectSeq(logfile, LAMBDA r : r.prefix = LogPrefix("m2n"))
         ]_vars

\* C18 witness: the NRCan-to-maser worker completed F then D and both are
\* in the log in that order, around the record of the frame of the other
\* direction, which has since been published.
C18_BothDirectionsLogged ==
    /\ [i \in 1..Len(logfile) |-> logfile[i].prefix] = <<"NRCan: ", "Maser: ", "NRCan: ">>
    /\ Emitted("n2m") = <<<<"F">>, <<"D">>>>
    /\ Len(wm_calls) = 1 /\ wm = NoArgs
    /\ files[final_path(<<"status2">>)].exists

\* s holds CR and LF characters only
Blank(s) == \A i \in 1..Len(s) : s[i] \in {"\r", "\n"}

\* C19 (zero-length frames are dispatched): every line of the maser that
\* holds CR and LF characters only gives a log record of an empty frame, and
\* no other line does; the empty frame goes on from the log write to the
\* classifier, which calls no parser and leaves the files alone; and no
\* frame of the sentinel policy is empty.
C19_EmptyFramesDispatched ==
    /\ [](/\ \A i \in 1..Len(Emitted("m2n")) :
               (Emitted("m2n")[i] = <<>>)
                  <=> Blank(Segments(rd["maser"], {"\n"}, <<>>)[i])
          /\ Len(Emitted("m2n")) = Len(Due("m2n", {"\n"}))
          /\ \A t \in {"n2m", "req"} :
               \A i \in 1..Len(Emitted(t)) : Emitted(t)[i] # <<>>)
    /\ [][(line["m2n"] = <<>> /\ pc'["m2n"] # pc["m2n"]) =>
            /\ pc["m2n"] = "unlock" => pc'["m2n"] = "detect"
            /\ pc["m2n"] = "detect" =>
                  /\ pc'["m2n"] = "reset" /\ called'.call = "none"
                  /\ wm_calls' = wm_calls /\ files' = files /\ raised' = raised
         ]_vars

\* C19 witness: two line feeds in a row gave two empty frames, both logged,
\* the second just classified as unrecognized, and nothing was published.
C19_TwoLineFeeds ==
    /\ rd["maser"] = <<"\n", "\n">>
    /\ Emitted("m2n") = << <<>>, <<>> >>
    /\ pc["m2n"] = "reset" /\ called.call = "none"
    /\ wm_calls = <<>> /\ \A q \in DOMAIN files : ~files[q].exists

\* C20 (every log write under the lock): once the workers are started,
\* the main control flow is inside the log write of its interrupt message
\* only while it holds the lock, and so never while a worker is inside the
\* log write of a frame.
C20_AllLogWritesUnderLock ==
    (prog = "mon" /\ pc["main"] = "except_strm") =>
       /\ lock = "main"
       /\ \A t \in Workers : pc[t] \notin {"log_file", "log_strm"}

====
